---- MODULE Spec2Model ----
(***************************************************************************)
(* devops-autopilot: the generate -> clean -> validate -> persist pipeline *)
(* of the Terraform generation service.                                    *)
(*                                                                         *)
(* Text is a sequence of one-character strings; the two language tags the  *)
(* sanitizer recognises ("terraform", "hcl") are single symbols.  The      *)
(* validator's captured output is a sequence of tokens (records).          *)
(***************************************************************************)
EXTENDS Integers, Sequences, FiniteSets, TLC

VARIABLES build, openaiClient, githubClient, githubToken, files, req, resp, saved, call

vars == <<build, openaiClient, githubClient, githubToken, files, req, resp, saved, call>>

\* ---------------------------------------------------------------- bounds
NumRequests == 2

\* ------------------------------------------------------- program constants
maxAttempts == 10000
StatusOK == 200
StatusCreated == 201
StatusBadRequest == 400
StatusInternalServerError == 500

Requests == 1..NumRequests

\* ------------------------------------------------------------ text helpers
\* one backtick character
BT == "bt"
NL == "\n"
SP == " "
Fence == <<BT, BT, BT>>

IsSpace(c) == c \in {SP, NL}

RECURSIVE TrimLeft(_)
TrimLeft(s) == IF s # <<>> /\ IsSpace(Head(s)) THEN TrimLeft(Tail(s)) ELSE s

RECURSIVE TrimRight(_)
TrimRight(s) ==
    IF s # <<>> /\ IsSpace(s[Len(s)]) THEN TrimRight(SubSeq(s, 1, Len(s) - 1)) ELSE s

\* strings.TrimSpace
TrimSpace(s) == TrimRight(TrimLeft(s))

HasPrefix(s, p) == Len(s) >= Len(p) /\ SubSeq(s, 1, Len(p)) = p
HasSuffix(s, p) == Len(s) >= Len(p) /\ SubSeq(s, Len(s) - Len(p) + 1, Len(s)) = p
Drop(s, n) == SubSeq(s, n + 1, Len(s))

\* an error value: the chain of messages built by fmt.Errorf("...: %w", err)
Nil == <<>>
Errorf(msg) == <<msg>>
Wrap(msg, err) == <<msg>> \o err

\* --------------------------------------------------------------- sanitizer
\* A mutant of re1: the language tag is optional.
StripAnyOpener(code) ==
    IF ~HasPrefix(code, Fence) THEN code
    ELSE IF Len(code) >= 4 /\ code[4] \in {"terraform", "hcl"}
    THEN IF Len(code) >= 5 /\ code[5] = NL THEN Drop(code, 5) ELSE Drop(code, 4)
    ELSE IF Len(code) >= 4 /\ code[4] = NL THEN Drop(code, 4) ELSE Drop(code, 3)

\* re1: a fence (three backticks) at the start of the text, then terraform or
\* hcl, then an optional newline; the match is replaced by ""
StripOpener(code) ==
    IF HasPrefix(code, Fence) /\ Len(code) >= 4 /\ code[4] \in {"terraform", "hcl"}
    THEN IF Len(code) >= 5 /\ code[5] = NL THEN Drop(code, 5) ELSE Drop(code, 4)
    ELSE code

\* A mutant of re2: the closing fence is left in place.
KeepCloser(code) == code

\* re2: a fence followed by $ (no m flag: the end of the text only); the match
\* is replaced by ""
StripCloser(code) ==
    IF HasSuffix(code, Fence) THEN SubSeq(code, 1, Len(code) - 3) ELSE code

CleanNoEmptyCheck(code) ==
    IF code = <<>>
    THEN [result |-> <<>>, err |-> Errorf("input code cannot be empty")]
    ELSE [result |-> TrimSpace(StripCloser(StripOpener(code))), err |-> Nil]

CleanTerraformCode(code) ==
    IF code = <<>>
    THEN [result |-> <<>>, err |-> Errorf("input code cannot be empty")]
    ELSE LET result == TrimSpace(StripCloser(StripOpener(code)))
         IN  IF result = <<>>
             THEN [result |-> <<>>, err |-> Errorf("cleaned code is empty after processing")]
             ELSE [result |-> result, err |-> Nil]

\* --------------------------------------------------------------- generators
\* The provider's reply to the outbound call: kind "error" (transport, auth,
\* rate limit, timeout), "http_error" / "bad_json" (GitHub Models only), or
\* "ok" with the list of choices' contents.
GenResult(content, err, called) == [content |-> content, err |-> err, called |-> called]

\* utils.GenerateTerraformCode
GenerateTerraformCode(client, resource, specs, api) ==
    IF ~client THEN GenResult(<<>>, Errorf("OpenAI client not initialized"), FALSE)
    ELSE IF TrimSpace(resource) = <<>>
    THEN GenResult(<<>>, Errorf("resource cannot be empty"), FALSE)
    ELSE IF TrimSpace(specs) = <<>>
    THEN GenResult(<<>>, Errorf("specs cannot be empty"), FALSE)
    ELSE IF api.kind # "ok"
    THEN GenResult(<<>>, Wrap("failed to generate terraform code", Errorf("provider error")), TRUE)
    ELSE IF Len(api.choices) = 0
    THEN GenResult(<<>>, Errorf("no response choices from OpenAI API"), TRUE)
    ELSE IF TrimSpace(api.choices[1]) = <<>>
    THEN GenResult(<<>>, Errorf("OpenAI returned empty content"), TRUE)
    ELSE GenResult(api.choices[1], Nil, TRUE)

\* utils.GenerateTerraformCodeWithCopilot
GenerateTerraformCodeWithCopilot(client, token, resource, specs, api) ==
    IF ~client THEN GenResult(<<>>, Errorf("GitHub client not initialized"), FALSE)
    ELSE IF ~token
    THEN GenResult(<<>>, Errorf("GITHUB_TOKEN environment variable is not set"), FALSE)
    ELSE IF TrimSpace(resource) = <<>>
    THEN GenResult(<<>>, Errorf("resource cannot be empty"), FALSE)
    ELSE IF TrimSpace(specs) = <<>>
    THEN GenResult(<<>>, Errorf("specs cannot be empty"), FALSE)
    ELSE IF api.kind = "error"
    THEN GenResult(<<>>, Wrap("failed to call GitHub Models API", Errorf("provider error")), TRUE)
    ELSE IF api.kind = "http_error"
    THEN GenResult(<<>>, Errorf("GitHub Models API error"), TRUE)
    ELSE IF api.kind = "bad_json"
    THEN GenResult(<<>>, Wrap("failed to parse response", Errorf("json")), TRUE)
    ELSE IF Len(api.choices) = 0
    THEN GenResult(<<>>, Errorf("no response choices from GitHub Models API"), TRUE)
    ELSE IF TrimSpace(api.choices[1]) = <<>>
    THEN GenResult(<<>>, Errorf("GitHub Models API returned empty content"), TRUE)
    ELSE GenResult(api.choices[1], Nil, TRUE)

\* ---------------------------------------------------------------- validator
\* Tokens of the validator's captured output, all of one shape:
\*   text  v = the characters            num   n = the number (a formatted %d)
\*   json  a complete JSON object: b = "valid", n = "error_count",
\*         d = "diagnostics", v = "spaced" when it is printed with a space
\*         after the colon of "valid" (terraform's own layout) else "compact"
Txt(s) == [k |-> "text", v |-> s, n |-> 0, b |-> FALSE, d |-> <<>>]
Num(i) == [k |-> "num", v |-> "", n |-> i, b |-> FALSE, d |-> <<>>]
Json(layout, valid, count, diags) ==
    [k |-> "json", v |-> layout, n |-> count, b |-> valid, d |-> diags]
Diag(sev, line, summary, detail) ==
    [Severity |-> sev, Line |-> line, Summary |-> summary, Detail |-> detail]

TNL == Txt(NL)
TSP == Txt(SP)
ValidFalseText == Txt("\"valid\": false")
WrapperPrefix == Txt("terraform validate failed:")
IsSpaceTok(t) == t \in {TNL, TSP}

RECURSIVE TrimLeftTok(_)
TrimLeftTok(s) == IF s # <<>> /\ IsSpaceTok(Head(s)) THEN TrimLeftTok(Tail(s)) ELSE s

RECURSIVE TrimRightTok(_)
TrimRightTok(s) ==
    IF s # <<>> /\ IsSpaceTok(s[Len(s)]) THEN TrimRightTok(SubSeq(s, 1, Len(s) - 1)) ELSE s

TrimSpaceTok(s) == TrimRightTok(TrimLeftTok(s))

\* strings.Contains(output, `"valid": false`)
ContainsValidFalse(output) ==
    \E i \in 1..Len(output) :
        \/ output[i] = ValidFalseText
        \/ output[i].k = "json" /\ output[i].v = "spaced" /\ ~output[i].b

\* strings.Split(output, "\n")
RECURSIVE SplitFrom(_, _, _)
SplitFrom(s, i, cur) ==
    IF i > Len(s) THEN <<cur>>
    ELSE IF s[i] = TNL THEN <<cur>> \o SplitFrom(s, i + 1, <<>>)
    ELSE SplitFrom(s, i + 1, Append(cur, s[i]))

SplitLines(output) == SplitFrom(output, 1, <<>>)

\* json.Unmarshal into TerraformValidateOutput: succeeds when the text is one
\* JSON object with white space around it
Unmarshal(output) ==
    LET t == TrimSpaceTok(output)
    IN  IF Len(t) = 1 /\ t[1].k = "json"
        THEN [ok |-> TRUE, Valid |-> t[1].b, ErrorCount |-> t[1].n, Diagnostics |-> t[1].d]
        ELSE [ok |-> FALSE, Valid |-> FALSE, ErrorCount |-> 0, Diagnostics |-> <<>>]

FormatDiagnostic(dg) ==
    <<Txt("Line "), Num(dg.Line), Txt(": "), Txt(dg.Summary), Txt(" - "), Txt(dg.Detail)>>

\* A mutant of the severity filter: every diagnostic becomes an error string.
AllDiagnostics(ds) == [i \in 1..Len(ds) |-> FormatDiagnostic(ds[i])]

RECURSIVE DiagnosticErrors(_)
DiagnosticErrors(ds) ==
    IF ds = <<>> THEN <<>>
    ELSE IF Head(ds).Severity = "error"
    THEN <<FormatDiagnostic(Head(ds))>> \o DiagnosticErrors(Tail(ds))
    ELSE DiagnosticErrors(Tail(ds))

\* parseJSONErrors
parseJSONErrors(jsonOutput) ==
    LET validateOutput == Unmarshal(jsonOutput)
        errors == DiagnosticErrors(validateOutput.Diagnostics)
    IN  IF ~validateOutput.ok
        THEN << <<Txt("Failed to parse validation output: ")>> \o jsonOutput >>
        ELSE IF Len(errors) = 0 /\ ~validateOutput.Valid
        THEN << <<Txt("Validation failed with "), Num(validateOutput.ErrorCount), Txt(" errors")>> >>
        ELSE errors

\* A mutant of the line policy: the wrapper's own lines are kept.
AllLines(lines) ==
    SelectSeq([i \in 1..Len(lines) |-> TrimSpaceTok(lines[i])], LAMBDA l : l # <<>>)

RECURSIVE LineErrors(_)
LineErrors(lines) ==
    IF lines = <<>> THEN <<>>
    ELSE LET line == TrimSpaceTok(Head(lines))
         IN  IF line # <<>> /\ ~HasPrefix(line, <<WrapperPrefix>>)
             THEN <<line>> \o LineErrors(Tail(lines))
             ELSE LineErrors(Tail(lines))

\* parseTerraformErrors
parseTerraformErrors(output) ==
    LET fromJSON == IF ContainsValidFalse(output) THEN parseJSONErrors(output) ELSE <<>>
        errors == LineErrors(SplitLines(output))
    IN  IF Len(fromJSON) > 0 THEN fromJSON
        ELSE IF Len(errors) = 0 THEN <<output>>
        ELSE errors

ValidationResult(isValid, errors, output, execTime) ==
    [IsValid |-> isValid, Errors |-> errors, Warnings |-> <<>>,
     Output |-> output, ExecTime |-> execTime]

NotInstalledError == <<Txt("Terraform CLI is not installed or not available in PATH")>>
InitFailedError(err) == <<Txt("Terraform init failed: ")>> \o err
\* the error of runTerraformInit / runTerraformValidate: the wrapped exit error
RunError(step) == <<Txt(step), Txt("exit status 1")>>

\* What one call did to its workspace and which steps it ran.
Hist(created, written, initRun, checkRun, left, logged) ==
    [workspaceCreated |-> created, mainTfWritten |-> written, initRun |-> initRun,
     checkRun |-> checkRun, workspaceLeft |-> left, cleanupLogged |-> logged]

ValReturn(result, err, hist) == [result |-> result, err |-> err, hist |-> hist]

\* A mutant of the success return: the parsed errors are kept on a valid result.
ValidReturnWithErrors(env) ==
    ValidationResult(TRUE, parseTerraformErrors(env.checkOutput), env.checkOutput, env.elapsed)

\* ValidateTerraformCode, the return after a successful check step
ValidReturn(env) == ValidationResult(TRUE, <<>>, env.checkOutput, env.elapsed)

\* A mutant of the capability probe: the missing CLI is not noticed.
AlwaysInstalled(env) == TRUE

\* isTerraformInstalled
isTerraformInstalled(env) == env.installed

\* The return when the terraform CLI is missing (lines 169-175).
NotInstalledReturn(env) ==
    ValReturn(<<ValidationResult(FALSE, <<NotInstalledError>>, <<>>, env.elapsed)>>, Nil,
              Hist(FALSE, FALSE, FALSE, FALSE, FALSE, FALSE))

\* A mutant of createTempTerraformDir: the directory is not removed when the
\* write of main.tf fails.
WorkspaceFailedKeepsDir(env) ==
    IF ~env.tempDir
    THEN ValReturn(<<>>, Wrap("failed to create temporary directory",
                              Errorf("failed to create temp dir")),
                   Hist(FALSE, FALSE, FALSE, FALSE, FALSE, FALSE))
    ELSE ValReturn(<<>>, Wrap("failed to create temporary directory",
                              Errorf("failed to write terraform file")),
                   Hist(TRUE, FALSE, FALSE, FALSE, TRUE, FALSE))

\* The return when createTempTerraformDir fails (lines 178-181): the error is
\* handed to the caller and no result is built.  When the write of main.tf
\* failed the directory was made, and os.RemoveAll's own error is dropped.
WorkspaceFailedReturn(env) ==
    IF ~env.tempDir
    THEN ValReturn(<<>>, Wrap("failed to create temporary directory",
                              Errorf("failed to create temp dir")),
                   Hist(FALSE, FALSE, FALSE, FALSE, FALSE, FALSE))
    ELSE ValReturn(<<>>, Wrap("failed to create temporary directory",
                              Errorf("failed to write terraform file")),
                   Hist(TRUE, FALSE, FALSE, FALSE, ~env.removeOk, FALSE))

\* A mutant of the init-failure return: the failure is handed up as an error.
InitFailedAsError(env) ==
    ValReturn(<<>>, Wrap("terraform init failed", RunError("terraform init failed: ")),
              Hist(TRUE, TRUE, TRUE, FALSE, ~env.removeOk, ~env.removeOk))

\* A mutant of the init-failure return: the check step is run all the same and
\* its output reported.
InitFailedThenCheck(env) ==
    ValReturn(<<ValidationResult(FALSE,
                    <<InitFailedError(RunError("terraform init failed: "))>>,
                    env.checkOutput, env.elapsed)>>, Nil,
              Hist(TRUE, TRUE, TRUE, TRUE, ~env.removeOk, ~env.removeOk))

\* The return when terraform init fails (lines 185-193); the deferred
\* cleanupTempDir has run, and logs when the removal fails.
InitFailedReturn(env) ==
    ValReturn(<<ValidationResult(FALSE,
                    <<InitFailedError(RunError("terraform init failed: "))>>,
                    env.initOutput, env.elapsed)>>, Nil,
              Hist(TRUE, TRUE, TRUE, FALSE, ~env.removeOk, ~env.removeOk))

\* The return when terraform validate fails (lines 199-208).
CheckFailedReturn(env) ==
    ValReturn(<<ValidationResult(FALSE, parseTerraformErrors(env.checkOutput),
                    env.checkOutput, env.elapsed)>>, Nil,
              Hist(TRUE, TRUE, TRUE, TRUE, ~env.removeOk, ~env.removeOk))

\* utils.ValidateTerraformCode.  env is what the execution environment does
\* during the call: installed (exec.LookPath), tempDir / writeMain (the two
\* steps of createTempTerraformDir), removeOk (os.RemoveAll), the outcome and
\* output of terraform init and terraform validate, and the elapsed time read.
ValidateTerraformCode(terraformCode, env) ==
    IF ~isTerraformInstalled(env) THEN NotInstalledReturn(env)
    ELSE IF ~env.tempDir \/ ~env.writeMain THEN WorkspaceFailedReturn(env)
    ELSE IF ~env.initOk THEN InitFailedReturn(env)
    ELSE IF ~env.checkOk THEN CheckFailedReturn(env)
    ELSE ValReturn(<<ValidReturn(env)>>, Nil,
                   Hist(TRUE, TRUE, TRUE, TRUE, ~env.removeOk, ~env.removeOk))

\* ------------------------------------------------------- filename allocator
Letters == {"a", "A"}
WordChars == Letters \cup {"1", "_"}

ToLowerChar(c) == IF c = "A" THEN "a" ELSE c

\* strings.Fields: the maximal runs of non-space characters
RECURSIVE FieldsFrom(_, _, _)
FieldsFrom(s, i, cur) ==
    IF i > Len(s) THEN (IF cur = <<>> THEN <<>> ELSE <<cur>>)
    ELSE IF IsSpace(s[i])
    THEN (IF cur = <<>> THEN <<>> ELSE <<cur>>) \o FieldsFrom(s, i + 1, <<>>)
    ELSE FieldsFrom(s, i + 1, Append(cur, s[i]))

Fields(s) == FieldsFrom(s, 1, <<>>)

\* strings.Join(words, "_")
RECURSIVE Join(_)
Join(words) ==
    IF words = <<>> THEN <<>>
    ELSE IF Len(words) = 1 THEN words[1]
    ELSE words[1] \o <<"_">> \o Join(Tail(words))

\* re.ReplaceAllString(baseName, "") with re = [^a-zA-Z0-9_], then ToLower
RECURSIVE CleanName(_)
CleanName(s) ==
    IF s = <<>> THEN <<>>
    ELSE IF Head(s) \in WordChars THEN <<ToLowerChar(Head(s))>> \o CleanName(Tail(s))
    ELSE CleanName(Tail(s))

\* A mutant of the base name: the words are not cut to the first five.
BaseNameAllWords(resourceText) ==
    LET baseName == CleanName(Join(Fields(resourceText)))
    IN  IF baseName = <<>> THEN <<"generated">> ELSE baseName

\* GetNextAvailableFilename, lines 139-156: the base name of a resource text
BaseName(resourceText) ==
    LET words == Fields(resourceText)
        first == IF Len(words) > 5 THEN SubSeq(words, 1, 5) ELSE words
        baseName == CleanName(Join(first))
    IN  IF baseName = <<>> THEN <<"generated">> ELSE baseName

\* fmt.Sprintf("%s_%s", provider, baseName)
BaseNameWithProvider(provider, resourceText) == <<provider, "_">> \o BaseName(resourceText)

\* filepath.Join(dir, fmt.Sprintf("%s_%d%s", prefixed, index, ext))
FilePath(dir, prefixed, index, ext) ==
    [dir |-> dir, name |-> prefixed \o <<"_", ToString(index), ext>>]

\* The prefixed base name a request of each handler probes with, and its
\* output directory.
PrefixedBase(kind, resource) ==
    IF kind = "legacy" THEN BaseName(resource) ELSE BaseNameWithProvider(kind, resource)

OutputDir(kind) == IF kind = "legacy" THEN "terraform" ELSE "tf-generated-files"

PathOf(kind, resource, index) ==
    FilePath(OutputDir(kind), PrefixedBase(kind, resource), index, ".tf")

\* A mutant of the loop condition: the last index is never probed.
BelowAttempts(index) == index < maxAttempts

\* for index := 1; index <= maxAttempts; index++
WithinAttempts(index) == index <= maxAttempts

\* A mutant of the existence probe: every path is reported free.
NeverExists(fs, path) == FALSE

\* os.Stat(filePath) does not fail with IsNotExist
Exists(fs, path) == \E f \in fs : f.path = path

\* os.WriteFile(filePath, code, 0644): creates the file, or truncates and
\* rewrites the one that is there.  writes counts the writes a path received.
WriteFile(fs, path, code) ==
    LET old == {f \in fs : f.path = path}
        n == IF old = {} THEN 0 ELSE (CHOOSE f \in old : TRUE).writes
    IN  (fs \ old) \cup {[path |-> path, content |-> code, writes |-> n + 1]}

\* ------------------------------------------------------------ service layer
\* For the record: the validation call a request made (what it did to its
\* workspace, and the environment it ran in).
Ran(v, env) == <<[hist |-> v.hist, env |-> env]>>

\* What GenerateAndValidate returns (cleanedCode, validation, err), with the
\* step that failed and the calls made on the way.
SvcReturn(cleanedCode, validation, err, failedAt, g, ran) ==
    [cleanedCode |-> cleanedCode, validation |-> validation, err |-> err,
     failedAt |-> failedAt, generatorCalled |-> g.called,
     validatorInvoked |-> ran # <<>>,
     env |-> IF ran = <<>> THEN <<>> ELSE <<ran[1].env>>,
     hist |-> IF ran = <<>> THEN Hist(FALSE, FALSE, FALSE, FALSE, FALSE, FALSE)
              ELSE ran[1].hist]

\* A mutant of the service: the validator is called before the sanitizer's
\* error is looked at.
ServiceValidatesFirst(g, genMsg, env) ==
    IF g.err # Nil THEN SvcReturn(<<>>, <<>>, Wrap(genMsg, g.err), "generate", g, <<>>)
    ELSE IF TrimSpace(g.content) = <<>>
    THEN SvcReturn(<<>>, <<>>, Errorf("generated terraform code is empty"), "empty", g, <<>>)
    ELSE LET c == CleanTerraformCode(g.content)
             v == ValidateTerraformCode(c.result, env)
         IN  IF c.err # Nil
             THEN SvcReturn(<<>>, <<>>, Wrap("failed to clean terraform code", c.err),
                            "clean", g, Ran(v, env))
             ELSE IF v.err # Nil
             THEN SvcReturn(c.result, <<>>,
                            Wrap("failed to validate terraform code", v.err),
                            "validate", g, Ran(v, env))
             ELSE SvcReturn(c.result, v.result, Nil, "", g, Ran(v, env))

\* The body shared by TerraformService.GenerateAndValidate and
\* GenerateAndValidateWithCopilot, given the generator's return g.
Service(g, genMsg, env) ==
    IF g.err # Nil THEN SvcReturn(<<>>, <<>>, Wrap(genMsg, g.err), "generate", g, <<>>)
    ELSE IF TrimSpace(g.content) = <<>>
    THEN SvcReturn(<<>>, <<>>, Errorf("generated terraform code is empty"), "empty", g, <<>>)
    ELSE LET c == CleanTerraformCode(g.content)
         IN  IF c.err # Nil
             THEN SvcReturn(<<>>, <<>>, Wrap("failed to clean terraform code", c.err),
                            "clean", g, <<>>)
             ELSE LET v == ValidateTerraformCode(c.result, env)
                  IN  IF v.err # Nil
                      THEN SvcReturn(c.result, <<>>,
                                     Wrap("failed to validate terraform code", v.err),
                                     "validate", g, Ran(v, env))
                      ELSE SvcReturn(c.result, v.result, Nil, "", g, Ran(v, env))

\* TerraformService.GenerateAndValidate
GenerateAndValidate(client, resource, specs, api, env) ==
    Service(GenerateTerraformCode(client, resource, specs, api),
            "failed to generate terraform code", env)

\* TerraformService.GenerateAndValidateWithCopilot
GenerateAndValidateWithCopilot(client, token, resource, specs, api, env) ==
    Service(GenerateTerraformCodeWithCopilot(client, token, resource, specs, api),
            "failed to generate terraform code with GitHub Copilot", env)

\* ------------------------------------------------------------------ inputs
\* Request bodies: wellFormed = the JSON parses; a field that is absent or ""
\* is <<>> (binding:"required" rejects both alike).
Resources == {<<>>, <<SP>>, <<"A", "!">>, <<"!", SP, "!">>}
SpecTexts == {<<>>, <<SP>>, <<"s">>}
Bodies ==
    {[wellFormed |-> FALSE, resource |-> <<>>, specs |-> <<>>]}
    \cup [wellFormed : {TRUE}, resource : Resources, specs : SpecTexts]

\* Generator replies: blank text, a fence around nothing, plain code, fenced
\* code (tagged, and with a bare opener).
Contents ==
    {<<SP, NL>>,
     Fence \o <<"hcl", NL>> \o Fence,
     <<"x">>,
     Fence \o <<"terraform", NL, "x", NL>> \o Fence,
     Fence \o <<NL, "x", NL>> \o Fence}

Reply(kind, choices) == [kind |-> kind, choices |-> choices]
OpenAIReplies ==
    {Reply("error", <<>>), Reply("ok", <<>>)} \cup {Reply("ok", <<c>>) : c \in Contents}
GitHubReplies ==
    OpenAIReplies \cup {Reply("http_error", <<>>), Reply("bad_json", <<>>)}

\* Validator environments.
TwoErrorsOneWarning ==
    <<Json("spaced", FALSE, 2,
           <<Diag("error", 1, "S1", "D1"), Diag("warning", 2, "S2", "D2"),
             Diag("error", 3, "S3", "D3")>>)>>
PlainErrors == <<Txt("Error: E1"), TNL, TSP, TNL, WrapperPrefix, Txt("exit status 1")>>
CheckOutputs == {TwoErrorsOneWarning, PlainErrors, <<>>}
SuccessOutput == <<Json("spaced", TRUE, 0, <<>>)>>
InitOutput == <<Txt("Error: init"), TNL>>

Env(installed, tempDir, writeMain, initOk, checkOk, removeOk, checkOutput) ==
    [installed |-> installed, tempDir |-> tempDir, writeMain |-> writeMain,
     initOk |-> initOk, checkOk |-> checkOk, removeOk |-> removeOk,
     initOutput |-> InitOutput, checkOutput |-> checkOutput, elapsed |-> 1]

\* The environments of the requests: one per way a validation call can go.
Envs ==
    {Env(FALSE, TRUE, TRUE, TRUE, TRUE, TRUE, SuccessOutput),
     Env(TRUE, FALSE, TRUE, TRUE, TRUE, TRUE, SuccessOutput),
     Env(TRUE, TRUE, FALSE, TRUE, TRUE, TRUE, SuccessOutput),
     Env(TRUE, TRUE, TRUE, FALSE, TRUE, TRUE, SuccessOutput),
     Env(TRUE, TRUE, TRUE, TRUE, TRUE, TRUE, SuccessOutput)}
    \cup {Env(TRUE, TRUE, TRUE, TRUE, FALSE, TRUE, o) : o \in CheckOutputs}

\* ---------------------------------------------------------------- handlers
NoSvc ==
    [cleanedCode |-> <<>>, validation |-> <<>>, err |-> Nil, failedAt |-> "",
     generatorCalled |-> FALSE, validatorInvoked |-> FALSE, env |-> <<>>,
     hist |-> Hist(FALSE, FALSE, FALSE, FALSE, FALSE, FALSE)]

NoBody == [wellFormed |-> FALSE, resource |-> <<>>, specs |-> <<>>]

\* A request: where its handler is, what it was called with, what the service
\* returned, the index of the probe loop, and probedAt = the number of files
\* the process had saved when the probe found the path free.
Fresh ==
    [pc |-> "Received", kind |-> "", body |-> NoBody, svc |-> NoSvc, index |-> 0,
     probedAt |-> 0]
Done ==
    [pc |-> "Done", kind |-> "", body |-> NoBody, svc |-> NoSvc, index |-> 0,
     probedAt |-> 0]

\* What a handler sent, with what the request did on the way: terminal is the
\* state the request ended in, wrote the path it wrote (if any), fault the
\* persistence step that failed (if any).
Response(r, kind, body, status, json, terminal, svc, wrote, fault) ==
    [r |-> r, kind |-> kind, request |-> body, status |-> status, body |-> json,
     terminal |-> terminal, svc |-> svc, wrote |-> wrote, fault |-> fault]

\* c.ShouldBindJSON(&req) fails
BindFails(body) == ~body.wellFormed \/ body.resource = <<>> \/ body.specs = <<>>

\* strings.TrimSpace(req.Resource) == "" || strings.TrimSpace(req.Specs) == ""
BlankFields(body) == TrimSpace(body.resource) = <<>> \/ TrimSpace(body.specs) = <<>>

\* A mutant of the persistence decision: every generated file is saved.
SaveAlways(validation) == TRUE

\* "Save file only if validation passes": if validation.IsValid
ShouldSave(validation) == validation.IsValid

\* A mutant of the status choice: a generated file is always answered 200.
AlwaysOK(validation) == StatusOK

\* statusCode and message of the success response
SuccessStatus(validation) == IF validation.IsValid THEN StatusOK ELSE StatusCreated
SuccessMessage(kind, validation) ==
    IF kind = "openai"
    THEN IF validation.IsValid THEN "Terraform code generated successfully"
         ELSE "Terraform code generated with validation errors"
    ELSE IF validation.IsValid
         THEN "Terraform code generated successfully using GitHub Copilot"
         ELSE "Terraform code generated using GitHub Copilot with validation errors"

SuccessBody(kind, svc) ==
    [message |-> SuccessMessage(kind, svc.validation[1]),
     terraformCode |-> svc.cleanedCode, validation |-> svc.validation[1]]

SuccessTerminal(validation) ==
    IF validation.IsValid THEN "PersistedValid" ELSE "PersistedInvalid"

\* The body of the 500 sent when GenerateAndValidate returns an error.
ServiceErrorBody(svc) == [error |-> svc.err]

\* A mutant of the save-failure body: the cause is left out.
SaveErrorBodyNoDetails(err) == [error |-> <<"Failed to save terraform file">>]

\* The body of the 500 sent when SaveTerraformFile returns an error.
SaveErrorBody(err) == [error |-> <<"Failed to save terraform file">>, details |-> err]

\* GenerateTerraform / GenerateTerraformWithCopilot up to the call of
\* SaveTerraformFile: the request is answered, or goes on to save.
Handle(r, kind, body, svc) ==
    IF BindFails(body)
    THEN /\ resp' = <<Response(r, kind, body, StatusBadRequest,
                        [error |-> <<"Invalid request format">>, details |-> <<"bind">>],
                        "Rejected", NoSvc, <<>>, "")>>
         /\ req' = [req EXCEPT ![r] = Done]
    ELSE IF BlankFields(body)
    THEN /\ resp' = <<Response(r, kind, body, StatusBadRequest,
                        [error |-> <<"Resource and specs fields cannot be empty">>],
                        "Rejected", NoSvc, <<>>, "")>>
         /\ req' = [req EXCEPT ![r] = Done]
    ELSE IF svc.err # Nil
    THEN /\ resp' = <<Response(r, kind, body, StatusInternalServerError,
                        ServiceErrorBody(svc), "Failed", svc, <<>>, "")>>
         /\ req' = [req EXCEPT ![r] = Done]
    ELSE IF ShouldSave(svc.validation[1])
    THEN /\ resp' = resp
         /\ req' = [req EXCEPT ![r] = [pc |-> "mkdir", kind |-> kind, body |-> body,
                                        svc |-> svc, index |-> 0, probedAt |-> 0]]
    ELSE /\ resp' = <<Response(r, kind, body, SuccessStatus(svc.validation[1]),
                        SuccessBody(kind, svc), SuccessTerminal(svc.validation[1]),
                        svc, <<>>, "")>>
         /\ req' = [req EXCEPT ![r] = Done]

\* Where the validator is not reached the environment of the validation call
\* plays no part, and one environment stands for all.
AnEnv == CHOOSE env \in Envs : TRUE

\* POST /terraform
GenerateTerraform(r) ==
    /\ resp = <<>>
    /\ req[r].pc = "Received"
    /\ build = "current"
    /\ \E body \in Bodies :
           IF BindFails(body) \/ BlankFields(body)
           THEN Handle(r, "openai", body, NoSvc)
           ELSE \E api \in OpenAIReplies :
                    IF ~GenerateAndValidate(openaiClient, body.resource, body.specs,
                                            api, AnEnv).validatorInvoked
                    THEN Handle(r, "openai", body,
                                GenerateAndValidate(openaiClient, body.resource,
                                                    body.specs, api, AnEnv))
                    ELSE \E env \in Envs :
                             Handle(r, "openai", body,
                                    GenerateAndValidate(openaiClient, body.resource,
                                                        body.specs, api, env))
    /\ UNCHANGED <<build, openaiClient, githubClient, githubToken, files, saved, call>>

\* POST /terraform-copilot
GenerateTerraformWithCopilot(r) ==
    /\ resp = <<>>
    /\ req[r].pc = "Received"
    /\ build = "current"
    /\ \E body \in Bodies :
           IF BindFails(body) \/ BlankFields(body)
           THEN Handle(r, "copilot", body, NoSvc)
           ELSE \E api \in GitHubReplies :
                    IF ~GenerateAndValidateWithCopilot(githubClient, githubToken,
                            body.resource, body.specs, api, AnEnv).validatorInvoked
                    THEN Handle(r, "copilot", body,
                                GenerateAndValidateWithCopilot(githubClient, githubToken,
                                    body.resource, body.specs, api, AnEnv))
                    ELSE \E env \in Envs :
                             Handle(r, "copilot", body,
                                    GenerateAndValidateWithCopilot(githubClient, githubToken,
                                        body.resource, body.specs, api, env))
    /\ UNCHANGED <<build, openaiClient, githubClient, githubToken, files, saved, call>>

\* The older GenerateTerraform (persist-always, no validator): generate, clean,
\* then save into "terraform" with no provider prefix.
LegacyPrepare(g) ==
    IF g.err # Nil
    THEN [svc |-> SvcReturn(<<>>, <<>>, g.err, "generate", g, <<>>),
          json |-> [error |-> <<"Failed to generate Terraform code">>, details |-> g.err]]
    ELSE IF TrimSpace(g.content) = <<>>
    THEN [svc |-> SvcReturn(<<>>, <<>>, Errorf("empty"), "empty", g, <<>>),
          json |-> [error |-> <<"Generated Terraform code is empty">>]]
    ELSE LET c == CleanTerraformCode(g.content)
         IN  IF c.err # Nil
             THEN [svc |-> SvcReturn(<<>>, <<>>, c.err, "clean", g, <<>>),
                   json |-> [error |-> <<"Failed to clean Terraform code">>, details |-> c.err]]
             ELSE [svc |-> SvcReturn(c.result, <<>>, Nil, "", g, <<>>), json |-> [none |-> TRUE]]

LegacyGenerateTerraform(r) ==
    /\ resp = <<>>
    /\ req[r].pc = "Received"
    /\ build = "legacy"
    /\ \E body \in Bodies, api \in OpenAIReplies :
           LET p == LegacyPrepare(GenerateTerraformCode(openaiClient, body.resource,
                                                        body.specs, api))
           IN  IF BindFails(body)
               THEN /\ resp' = <<Response(r, "legacy", body, StatusBadRequest,
                                   [error |-> <<"Invalid request format">>,
                                    details |-> <<"bind">>],
                                   "Rejected", NoSvc, <<>>, "")>>
                    /\ req' = [req EXCEPT ![r] = Done]
               ELSE IF BlankFields(body)
               THEN /\ resp' = <<Response(r, "legacy", body, StatusBadRequest,
                                   [error |-> <<"Resource and specs fields cannot be empty">>],
                                   "Rejected", NoSvc, <<>>, "")>>
                    /\ req' = [req EXCEPT ![r] = Done]
               ELSE IF p.svc.err # Nil
               THEN /\ resp' = <<Response(r, "legacy", body, StatusInternalServerError,
                                   p.json, "Failed", p.svc, <<>>, "")>>
                    /\ req' = [req EXCEPT ![r] = Done]
               ELSE /\ resp' = resp
                    /\ req' = [req EXCEPT ![r] = [pc |-> "mkdir", kind |-> "legacy",
                                                   body |-> body, svc |-> p.svc,
                                                   index |-> 0, probedAt |-> 0]]
    /\ UNCHANGED <<build, openaiClient, githubClient, githubToken, files, saved, call>>

\* The 500 a failed persistence step is answered with.
SaveFailed(r, err, fault) ==
    LET q == req[r]
        json == IF q.kind = "legacy"
                THEN IF fault = "write"
                     THEN [error |-> <<"Failed to write terraform file">>, details |-> err,
                           path |-> PathOf(q.kind, q.body.resource, q.index)]
                     ELSE [error |-> <<"Failed to save">>, details |-> err]
                ELSE SaveErrorBody(err)
    IN  /\ resp' = <<Response(r, q.kind, q.body, StatusInternalServerError, json,
                       "Failed", q.svc, <<>>, fault)>>
        /\ req' = [req EXCEPT ![r] = Done]

\* os.MkdirAll(terraformDir, 0755), the first step of SaveTerraformFile
MkdirAll(r) ==
    /\ resp = <<>>
    /\ req[r].pc = "mkdir"
    /\ \E ok \in BOOLEAN :
           IF ok
           THEN /\ req' = [req EXCEPT ![r].pc = "probe", ![r].index = 1]
                /\ resp' = resp
           ELSE SaveFailed(r, Wrap("failed to create tf-generated-files directory",
                                   Errorf("mkdir")), "mkdir")
    /\ UNCHANGED <<build, openaiClient, githubClient, githubToken, files, saved, call>>

\* One iteration of the probe loop of GetNextAvailableFilename: os.Stat of the
\* path with the current index.
Probe(r) ==
    /\ resp = <<>>
    /\ req[r].pc = "probe"
    /\ LET q == req[r]
       IN  IF ~Exists(files, PathOf(q.kind, q.body.resource, q.index))
           THEN /\ req' = [req EXCEPT ![r].pc = "write", ![r].probedAt = Len(saved)]
                /\ resp' = resp
           ELSE IF WithinAttempts(q.index + 1)
           THEN /\ req' = [req EXCEPT ![r].index = q.index + 1]
                /\ resp' = resp
           ELSE SaveFailed(r, Wrap("failed to generate unique filename",
                                   Errorf("failed to find available filename")), "alloc")
    /\ UNCHANGED <<build, openaiClient, githubClient, githubToken, files, saved, call>>

\* os.WriteFile(filePath, code) of SaveTerraformFile and the response after it
Write(r) ==
    /\ resp = <<>>
    /\ req[r].pc = "write"
    /\ LET q == req[r]
           path == PathOf(q.kind, q.body.resource, q.index)
       IN  \E ok \in BOOLEAN :
               IF ok
               THEN /\ files' = WriteFile(files, path, q.svc.cleanedCode)
                    /\ saved' = Append(saved, [r |-> r, path |-> path, index |-> q.index,
                                               key |-> PathOf(q.kind, q.body.resource, 0),
                                               probedAt |-> q.probedAt,
                                               fresh |-> \A f \in files : f.path # path])
                    /\ req' = [req EXCEPT ![r] = Done]
                    /\ resp' = IF q.kind = "legacy"
                               THEN <<Response(r, q.kind, q.body, StatusOK,
                                        [message |-> "Terraform code generated successfully",
                                         terraformCode |-> q.svc.cleanedCode],
                                        "Persisted", q.svc, <<path>>, "")>>
                               ELSE <<Response(r, q.kind, q.body,
                                        SuccessStatus(q.svc.validation[1]),
                                        SuccessBody(q.kind, q.svc),
                                        SuccessTerminal(q.svc.validation[1]),
                                        q.svc, <<path>>, "")>>
               ELSE /\ SaveFailed(r, Wrap("failed to write terraform file", Errorf("write")),
                                  "write")
                    /\ UNCHANGED <<files, saved>>
    /\ UNCHANGED <<build, openaiClient, githubClient, githubToken, call>>

\* The response leaves the handler (c.JSON returns); resp holds one response
\* at a time, the one being sent.
Observe ==
    /\ resp # <<>>
    /\ resp' = <<>>
    /\ UNCHANGED <<build, openaiClient, githubClient, githubToken, files, req, saved, call>>

\* ------------------------------------------------------------ specification
\* main: InitOpenAI has set the client (the process exits otherwise); nothing
\* calls InitGitHub.  The output directory may hold a file of an earlier run.
EarlierFile ==
    [path |-> PathOf("openai", <<"A", "!">>, 1), content |-> <<"x">>, writes |-> 0]

Init ==
    /\ build \in {"current", "legacy"}
    /\ openaiClient = TRUE
    /\ githubClient = FALSE
    /\ githubToken \in BOOLEAN
    /\ files \in {{}, {EarlierFile}}
    /\ req = [r \in Requests |-> Fresh]
    /\ resp = <<>>
    /\ saved = <<>>
    /\ call = <<>>

Next ==
    \/ \E r \in Requests : GenerateTerraform(r)
    \/ \E r \in Requests : GenerateTerraformWithCopilot(r)
    \/ \E r \in Requests : LegacyGenerateTerraform(r)
    \/ \E r \in Requests : MkdirAll(r)
    \/ \E r \in Requests : Probe(r)
    \/ \E r \in Requests : Write(r)
    \/ Observe

Spec == Init /\ [][Next]_vars

\* ------------------------------------------- sequential use of the service
\* The same service with one POST /terraform or /terraform-copilot request in
\* flight at a time, started on an empty output directory.
NoneInFlight == \A r \in Requests : req[r].pc \in {"Received", "Done"}

SeqInit ==
    /\ build = "current"
    /\ openaiClient = TRUE
    /\ githubClient = FALSE
    /\ githubToken \in BOOLEAN
    /\ files = {}
    /\ req = [r \in Requests |-> Fresh]
    /\ resp = <<>>
    /\ saved = <<>>
    /\ call = <<>>

SeqNext ==
    \/ \E r \in Requests : NoneInFlight /\ GenerateTerraform(r)
    \/ \E r \in Requests : NoneInFlight /\ GenerateTerraformWithCopilot(r)
    \/ \E r \in Requests : MkdirAll(r)
    \/ \E r \in Requests : Probe(r)
    \/ \E r \in Requests : Write(r)
    \/ Observe

SpecSeq == SeqInit /\ [][SeqNext]_vars

\* ------------------------------------------------- the validation endpoint
MaxElapsed == 1

NotInstalledLine == NotInstalledError \o <<TNL>>
CompactInvalid == <<Json("compact", FALSE, 1, <<Diag("error", 4, "S4", "D4")>>)>>
NoDiagnostics == <<Json("spaced", FALSE, 2, <<>>)>>
BrokenJSON == <<Txt("{"), ValidFalseText>>
IndentedErrors == <<TSP, Txt("Error: E2"), TNL, Txt("E3"), TSP>>
AllCheckOutputs ==
    CheckOutputs \cup {SuccessOutput, NotInstalledLine, CompactInvalid, NoDiagnostics,
                       BrokenJSON, IndentedErrors, <<TSP, TNL>>}

FullEnvs ==
    [installed : BOOLEAN, tempDir : BOOLEAN, writeMain : BOOLEAN, initOk : BOOLEAN,
     checkOk : BOOLEAN, removeOk : BOOLEAN, initOutput : {InitOutput, <<>>},
     checkOutput : AllCheckOutputs, elapsed : 0..MaxElapsed]

ValidationBodies ==
    [wellFormed : BOOLEAN, terraformCode : {<<>>, <<SP>>, <<"x">>}]

\* What POST /validate answered, with the request, the environment of the
\* call and what ValidateTerraformCode returned (ret, empty when not called).
Answer(body, env, status, json, ret) ==
    [request |-> body, env |-> env, status |-> status, body |-> json, ret |-> ret]

StatusUnprocessableEntity == 422

\* handlers.ValidateTerraform
ValidateTerraform ==
    /\ call = <<>>
    /\ \E body \in ValidationBodies, env \in FullEnvs :
           LET ret == ValidateTerraformCode(body.terraformCode, env)
           IN  call' =
                   IF ~body.wellFormed \/ body.terraformCode = <<>>
                   THEN <<Answer(body, env, StatusBadRequest,
                                 [error |-> <<"Invalid request format">>,
                                  details |-> <<"bind">>], <<>>)>>
                   ELSE IF TrimSpace(body.terraformCode) = <<>>
                   THEN <<Answer(body, env, StatusBadRequest,
                                 [error |-> <<"terraformCode field cannot be empty">>], <<>>)>>
                   ELSE IF ret.err # Nil
                   THEN <<Answer(body, env, StatusInternalServerError,
                                 [error |-> <<"Failed to validate terraform code">>,
                                  details |-> ret.err], <<ret>>)>>
                   ELSE <<Answer(body, env,
                                 IF ret.result[1].IsValid THEN StatusOK
                                 ELSE StatusUnprocessableEntity,
                                 [message |-> "Terraform validation completed",
                                  validation |-> ret.result[1]], <<ret>>)>>
    /\ UNCHANGED <<build, openaiClient, githubClient, githubToken, files, req, resp, saved>>

\* The answer leaves the handler.
Answered ==
    /\ call # <<>>
    /\ call' = <<>>
    /\ UNCHANGED <<build, openaiClient, githubClient, githubToken, files, req, resp, saved>>

ValNext == ValidateTerraform \/ Answered

SpecValidate == SeqInit /\ [][ValNext]_vars

\* ------------------------------------------------------ the allocator alone
\* GetNextAvailableFilename called on a directory, one probe per step.  The
\* directory is given by what os.Stat answers for the name probed: the indices
\* 1..upto are taken, except hole.
MaxWords == 6

NameWords == {<<"A", "!">>, <<"!", "!">>, <<"a", "_", "1">>}
WordLists == UNION {[1..n -> NameWords] : n \in 0..MaxWords}

\* The text made of the words with sep between them.
RECURSIVE TextOf(_, _)
TextOf(words, sep) ==
    IF words = <<>> THEN <<>>
    ELSE IF Len(words) = 1 THEN words[1]
    ELSE words[1] \o sep \o TextOf(Tail(words), sep)

Taken(upto, hole) == [upto |-> upto, hole |-> hole]
SmallDirs == {Taken(0, 0), Taken(1, 0), Taken(3, 2)}
FullDirs ==
    {Taken(maxAttempts - 1, 0), Taken(maxAttempts, 0), Taken(maxAttempts + 1, 0),
     Taken(maxAttempts + 1, maxAttempts)}

\* os.Stat(filePath) on such a directory
StatExists(taken, index) == index <= taken.upto /\ index # taken.hole

AllocCall(dir, words, text, provider, ext, taken) ==
    [dir |-> dir, words |-> words, resourceText |-> text, provider |-> provider,
     ext |-> ext, taken |-> taken, pc |-> "start", index |-> 0, probes |-> 0,
     path |-> <<>>, err |-> Nil]

AllocCalls ==
    {AllocCall("tf-generated-files", w, pad \o TextOf(w, sep) \o pad, "openai", ".tf", t) :
        w \in WordLists, sep \in {<<SP>>, <<SP, NL>>}, pad \in {<<>>, <<SP>>},
        t \in SmallDirs}
    \cup {AllocCall("tf-generated-files", <<>>, <<>>, "copilot", ".tf", t) : t \in FullDirs}
    \cup {AllocCall("", <<>>, <<>>, "openai", ".tf", Taken(0, 0)),
          AllocCall("tf-generated-files", <<>>, <<>>, "", ".tf", Taken(0, 0)),
          AllocCall("tf-generated-files", <<>>, <<>>, "openai", "", Taken(0, 0))}

AllocInit ==
    /\ build = "current"
    /\ openaiClient = TRUE
    /\ githubClient = FALSE
    /\ githubToken = FALSE
    /\ files = {}
    /\ req = [r \in Requests |-> Fresh]
    /\ resp = <<>>
    /\ saved = <<>>
    /\ call \in {<<c>> : c \in AllocCalls}

\* GetNextAvailableFilename up to the loop: the checks of the arguments
AllocStart ==
    /\ call[1].pc = "start"
    /\ LET c == call[1]
       IN  call' =
               IF c.dir = ""
               THEN <<[c EXCEPT !.pc = "done", !.err = Errorf("directory cannot be empty")]>>
               ELSE IF c.ext = ""
               THEN <<[c EXCEPT !.pc = "done", !.err = Errorf("extension cannot be empty")]>>
               ELSE IF c.provider = ""
               THEN <<[c EXCEPT !.pc = "done", !.err = Errorf("provider cannot be empty")]>>
               ELSE <<[c EXCEPT !.pc = "probe", !.index = 1]>>
    /\ UNCHANGED <<build, openaiClient, githubClient, githubToken, files, req, resp, saved>>

\* One evaluation of the loop condition, and the body when it holds.
AllocProbe ==
    /\ call[1].pc = "probe"
    /\ LET c == call[1]
           filePath == FilePath(c.dir, BaseNameWithProvider(c.provider, c.resourceText),
                                c.index, c.ext)
       IN  call' =
               IF ~WithinAttempts(c.index)
               THEN <<[c EXCEPT !.pc = "done",
                                !.err = Errorf("failed to find available filename")]>>
               ELSE IF ~StatExists(c.taken, c.index)
               THEN <<[c EXCEPT !.pc = "done", !.probes = c.probes + 1,
                                !.path = <<filePath>>]>>
               ELSE <<[c EXCEPT !.index = c.index + 1, !.probes = c.probes + 1]>>
    /\ UNCHANGED <<build, openaiClient, githubClient, githubToken, files, req, resp, saved>>

AllocNext == AllocStart \/ AllocProbe

SpecAlloc == AllocInit /\ [][AllocNext]_vars

\* ------------------------------------------------------ the sanitizer alone
\* CleanTerraformCode applied to a text, and then to its own result.  A text
\* is a payload with or without a fence opener before it (bare, or tagged
\* terraform or hcl, with or without the newline after it) and with or without
\* a fence right at its end.
MaxText == 5

TextChars == {BT, NL, "x", "hcl"}
Texts == UNION {[1..n -> TextChars] : n \in 0..MaxText}
Leads == {"none", "bare", "terraform", "hcl"}

Opener(lead, nl) ==
    IF lead = "none" THEN <<>>
    ELSE Fence \o (IF lead = "bare" THEN <<>> ELSE <<lead>>) \o (IF nl THEN <<NL>> ELSE <<>>)

CleanInput(payload, lead, nl, trail) ==
    [payload |-> payload, lead |-> lead, nl |-> nl, trail |-> trail,
     raw |-> Opener(lead, nl) \o payload \o (IF trail THEN Fence ELSE <<>>),
     out |-> <<>>, again |-> <<>>]

CleanInputs ==
    {CleanInput(p, l, n, t) : p \in Texts, l \in Leads, n \in BOOLEAN, t \in BOOLEAN}

CleanInit ==
    /\ build = "current"
    /\ openaiClient = TRUE
    /\ githubClient = FALSE
    /\ githubToken = FALSE
    /\ files = {}
    /\ req = [r \in Requests |-> Fresh]
    /\ resp = <<>>
    /\ saved = <<>>
    /\ call \in {<<i>> : i \in CleanInputs}

\* cleanedCode, err := s.CleanTerraformCode(terraformCode)
CleanStep ==
    /\ call[1].out = <<>>
    /\ call' = <<[call[1] EXCEPT !.out = <<CleanTerraformCode(call[1].raw)>>]>>
    /\ UNCHANGED <<build, openaiClient, githubClient, githubToken, files, req, resp, saved>>

\* CleanTerraformCode applied to the text it returned
CleanAgain ==
    /\ call[1].out # <<>> /\ call[1].out[1].err = Nil
    /\ call[1].again = <<>>
    /\ call' = <<[call[1] EXCEPT !.again = <<CleanTerraformCode(call[1].out[1].result)>>]>>
    /\ UNCHANGED <<build, openaiClient, githubClient, githubToken, files, req, resp, saved>>

CleanNext == CleanStep \/ CleanAgain

SpecClean == CleanInit /\ [][CleanNext]_vars

\* ------------------------------------------------------------------ claims
Validating(kind) == kind \in {"openai", "copilot"}
HasResult(R) == R.svc.validation # <<>>
IsValidResult(R) == HasResult(R) /\ R.svc.validation[1].IsValid
WrittenFiles == {f \in files : f.writes >= 1}

\* C1, as stated: a request of the validating pipeline that reached a terminal
\* state wrote a file if and only if its ValidationResult has isValid = true.
C1_FileIffValid ==
    resp # <<>> /\ Validating(resp[1].kind) =>
        (resp[1].wrote # <<>> <=> IsValidResult(resp[1]))

\* C1, amended: a file is written if and only if the ValidationResult has
\* isValid = true and no persistence step faulted; the written file holds the
\* normalized code; when isValid = false the normalized code and the
\* diagnostics are in the response and the request wrote nothing.
C1_FileIffValidAndSaved ==
    resp # <<>> /\ Validating(resp[1].kind) =>
        LET R == resp[1]
        IN  /\ R.wrote # <<>> <=> (IsValidResult(R) /\ R.fault = "")
            /\ R.wrote # <<>> =>
                   \E f \in WrittenFiles :
                       f.path = R.wrote[1] /\ f.content = R.svc.cleanedCode
            /\ HasResult(R) /\ ~IsValidResult(R) =>
                   /\ R.wrote = <<>>
                   /\ {"terraformCode", "validation"} \subseteq DOMAIN R.body
                   /\ R.body.terraformCode = R.svc.cleanedCode
                   /\ R.body.validation = R.svc.validation[1]

C1_Witness ==
    resp # <<>> /\ resp[1].kind = "openai" /\ resp[1].terminal = "PersistedValid"
    /\ resp[1].wrote # <<>>

\* C2, as stated: once the validator was entered the request ends in
\* PersistedValid or PersistedInvalid, and in Failed only when a persistence
\* step faulted.
C2_NeverFailedOnceValidating ==
    resp # <<>> /\ resp[1].svc.validatorInvoked =>
        \/ resp[1].terminal \in {"PersistedValid", "PersistedInvalid"}
        \/ resp[1].terminal = "Failed" /\ resp[1].fault # ""

\* C2, amended: once the validator was entered the request ends in Failed
\* exactly when the workspace could not be created (the temporary directory or
\* its source file) or a persistence step faulted; a missing validator, an
\* init failure and a check failure all end in PersistedInvalid.
C2_FailedOnlyOnWorkspaceOrPersist ==
    resp # <<>> /\ resp[1].svc.validatorInvoked =>
        LET R == resp[1]
            e == R.svc.env[1]
        IN  IF e.installed /\ (~e.tempDir \/ ~e.writeMain)
            THEN R.terminal = "Failed" /\ R.fault = "" /\ ~HasResult(R)
            ELSE /\ HasResult(R)
                 /\ \/ R.terminal = "Failed" /\ R.fault # ""
                    \/ R.terminal = "PersistedValid" /\ IsValidResult(R)
                    \/ R.terminal = "PersistedInvalid" /\ ~IsValidResult(R)
                 /\ (~e.installed \/ ~e.initOk \/ ~e.checkOk) =>
                        R.terminal = "PersistedInvalid"

C2_Witness ==
    resp # <<>> /\ resp[1].svc.validatorInvoked /\ ~resp[1].svc.env[1].initOk
    /\ resp[1].svc.env[1].installed /\ resp[1].terminal = "PersistedInvalid"

\* C3, as stated: when a persistence step faults after a valid result the
\* request ends in Failed and the failure sent carries the ValidationResult.
C3_SaveFailureCarriesValidation ==
    resp # <<>> /\ Validating(resp[1].kind) /\ resp[1].fault # "" =>
        /\ resp[1].terminal = "Failed"
        /\ "validation" \in DOMAIN resp[1].body

\* C3, amended: when a persistence step faults after a valid result the
\* request ends in Failed, answered 500 with exactly an error ("Failed to save
\* terraform file") and the details of the fault; the ValidationResult is not
\* in the response, and nothing was written.
C3_SaveFailureBody ==
    resp # <<>> /\ Validating(resp[1].kind) /\ resp[1].fault # "" =>
        LET R == resp[1]
        IN  /\ IsValidResult(R)
            /\ R.terminal = "Failed"
            /\ R.status = StatusInternalServerError
            /\ DOMAIN R.body = {"error", "details"}
            /\ R.body.error = <<"Failed to save terraform file">>
            /\ Len(R.body.details) >= 2
            /\ R.wrote = <<>>

C3_Witness ==
    resp # <<>> /\ resp[1].kind = "openai" /\ resp[1].fault = "write"
    /\ IsValidResult(resp[1])

\* C4: a failure of the generation step or of the sanitization step ends the
\* request in Failed, answered 500 with the failure's detail; the validator was
\* not invoked, no workspace was created and no file was written.
C4_EarlyFailure ==
    resp # <<>> /\ Validating(resp[1].kind)
    /\ resp[1].svc.failedAt \in {"generate", "empty", "clean"} =>
        LET R == resp[1]
        IN  /\ R.terminal = "Failed"
            /\ R.status = StatusInternalServerError
            /\ R.body.error = R.svc.err
            /\ R.svc.failedAt \in {"generate", "clean"} => Len(R.svc.err) >= 2
            /\ ~R.svc.validatorInvoked
            /\ ~R.svc.hist.workspaceCreated
            /\ R.wrote = <<>> /\ R.fault = ""

C4_Witness ==
    resp # <<>> /\ resp[1].kind = "openai" /\ resp[1].svc.failedAt = "clean"
    /\ resp[1].terminal = "Failed"

\* C5: every ValidationResult that ValidateTerraformCode returns, on every
\* return path, has no errors when isValid is true.
C5_ValidHasNoErrors ==
    call # <<>> /\ call[1].ret # <<>> /\ call[1].ret[1].result # <<>> =>
        (call[1].ret[1].result[1].IsValid => call[1].ret[1].result[1].Errors = <<>>)

C5_Witness ==
    call # <<>> /\ call[1].ret # <<>> /\ call[1].ret[1].result # <<>>
    /\ call[1].ret[1].result[1].IsValid /\ call[1].env.checkOk

\* C6: when the terraform CLI is missing, ValidateTerraformCode returns a
\* result and no error: isValid = false, exactly one error naming the missing
\* CLI, no workspace, no init, no check; and no result of a call that found the
\* CLI equals it (errors and output together tell the two apart).
C6_MissingValidator ==
    call # <<>> /\ call[1].ret # <<>> =>
        LET ret == call[1].ret[1]
            e == call[1].env
        IN  /\ ~e.installed =>
                   /\ ret.err = Nil
                   /\ Len(ret.result) = 1
                   /\ ~ret.result[1].IsValid
                   /\ ret.result[1].Errors = <<NotInstalledError>>
                   /\ ret.result[1].Output = <<>>
                   /\ ~ret.hist.workspaceCreated /\ ~ret.hist.initRun /\ ~ret.hist.checkRun
                   /\ call[1].status = StatusUnprocessableEntity
            /\ e.installed /\ ret.result # <<>> =>
                   ~(/\ ret.result[1].Errors = <<NotInstalledError>>
                     /\ ret.result[1].Output = <<>>)

C6_Witness == call # <<>> /\ call[1].ret # <<>> /\ ~call[1].env.installed

\* C7: in sequential use on a directory that held no file, the paths returned
\* for one tag and base name carry the indices 1, 2, ..., N in call order and
\* are pairwise distinct.
C7_SequentialIndices ==
    /\ \A i \in 1..Len(saved) :
           saved[i].index = Cardinality({j \in 1..i : saved[j].key = saved[i].key})
    /\ \A i, j \in 1..Len(saved) : i # j => saved[i].path # saved[j].path

C7_Witness ==
    Len(saved) >= 2 /\ saved[1].key = saved[2].key /\ saved[2].index = 2

\* C8, as stated: under any interleaving no persist step writes to a path that
\* already holds a file, and K successful persists leave K files.
C8_NoOverwrite ==
    /\ \A i \in 1..Len(saved) : saved[i].fresh
    /\ Cardinality(WrittenFiles) = Len(saved)

\* C8, amended: a persist step writes to a path that already holds a file only
\* when another request of the process created that file after this request
\* probed the path and found it free (allocation is check-then-create, not
\* atomic), so concurrent persists can overwrite one another; a file found by
\* the probe is never written to, and K successful persists leave at least one
\* and at most K files.
C8_OverwriteOnlyInRace ==
    /\ \A i \in 1..Len(saved) :
           ~saved[i].fresh =>
               \E j \in (saved[i].probedAt + 1)..(i - 1) : saved[j].path = saved[i].path
    /\ Cardinality(WrittenFiles) <= Len(saved)
    /\ Len(saved) >= 1 => Cardinality(WrittenFiles) >= 1

C8_Witness == \E i \in 1..Len(saved) : ~saved[i].fresh

C10_Statuses(R) ==
    /\ R.status \in {StatusOK, StatusCreated, StatusBadRequest, StatusInternalServerError}
    /\ R.status = StatusBadRequest <=> (BindFails(R.request) \/ BlankFields(R.request))
    /\ R.status = StatusBadRequest => ~R.svc.generatorCalled
    /\ R.status = StatusOK <=> (IsValidResult(R) /\ R.wrote # <<>>)
    /\ R.status = StatusCreated <=> (HasResult(R) /\ ~IsValidResult(R))
    /\ R.status \in {StatusOK, StatusCreated} =>
           /\ {"message", "terraformCode"} \subseteq DOMAIN R.body
           /\ R.body.terraformCode = R.svc.cleanedCode
    /\ R.status = StatusInternalServerError <=> R.terminal = "Failed"

\* C10, as stated: ... and every 500 has both error and details in its body.
C10_EveryFailureHasDetails ==
    resp # <<>> /\ resp[1].kind = "openai" =>
        /\ C10_Statuses(resp[1])
        /\ resp[1].status = StatusInternalServerError =>
               {"error", "details"} \subseteq DOMAIN resp[1].body

\* C10, amended: ... and every 500 has error in its body; details is there
\* exactly when a persistence step failed, while a generator, sanitizer or
\* workspace failure is answered with error alone, its detail inside error.
C10_StatusByOutcome ==
    resp # <<>> /\ resp[1].kind = "openai" =>
        /\ C10_Statuses(resp[1])
        /\ resp[1].status = StatusInternalServerError =>
               /\ "error" \in DOMAIN resp[1].body
               /\ "details" \in DOMAIN resp[1].body <=> resp[1].fault # ""
               /\ resp[1].fault = "" =>
                      resp[1].body.error = resp[1].svc.err /\ Len(resp[1].svc.err) >= 2

C10_Witness ==
    resp # <<>> /\ resp[1].kind = "openai"
    /\ resp[1].status = StatusInternalServerError /\ resp[1].fault = ""
    /\ resp[1].svc.failedAt = "generate"

\* C11: in the running service, when the alternate provider's credential
\* (GITHUB_TOKEN) is set, a request routed to the alternate backend that passes
\* the input checks reaches the outbound provider call; it fails as "not
\* initialized" only when the credential is missing.
C11_CredentialEnablesBackend ==
    resp # <<>> /\ resp[1].kind = "copilot" /\ githubToken
    /\ resp[1].status # StatusBadRequest =>
        /\ resp[1].svc.generatorCalled
        /\ resp[1].svc.err #
               Wrap("failed to generate terraform code with GitHub Copilot",
                    Errorf("GitHub client not initialized"))

\* A call of POST /validate whose check step ran and failed, and the errors of
\* its result.
CheckFailed ==
    /\ call # <<>> /\ call[1].ret # <<>>
    /\ call[1].ret[1].hist.checkRun /\ ~call[1].env.checkOk
ErrorsOfCall == call[1].ret[1].result[1].Errors
\* The check output is one structured document that asserts invalidity.
IsInvalidDocument(output) ==
    Len(output) = 1 /\ output[1].k = "json" /\ ~output[1].b
\* One string per error-severity diagnostic, in document order.
OnePerErrorDiagnostic(ds) ==
    LET es == SelectSeq(ds, LAMBDA dg : dg.Severity = "error")
    IN  [i \in 1..Len(es) |->
            <<Txt("Line "), Num(es[i].Line), Txt(": "), Txt(es[i].Summary),
              Txt(" - "), Txt(es[i].Detail)>>]

\* C12, as stated: from a structured document asserting invalidity the error
\* list holds exactly one formatted string per error-severity diagnostic, in
\* document order, and nothing else.
C12_OnePerError ==
    CheckFailed /\ IsInvalidDocument(call[1].env.checkOutput) =>
        ErrorsOfCall = OnePerErrorDiagnostic(call[1].env.checkOutput[1].d)

\* C12, amended: that holds when the document carries the text "valid": false
\* as terraform prints it and has at least one error-severity diagnostic; with
\* no error-severity diagnostic the list is the single generic message
\* "Validation failed with <error_count> errors"; a document that asserts
\* invalidity without that text is not parsed, and the list is the document
\* itself as one line.
C12_ErrorDiagnostics ==
    CheckFailed /\ IsInvalidDocument(call[1].env.checkOutput) =>
        LET doc == call[1].env.checkOutput[1]
            expected == OnePerErrorDiagnostic(doc.d)
        IN  IF doc.v # "spaced" THEN ErrorsOfCall = <<call[1].env.checkOutput>>
            ELSE IF expected # <<>> THEN ErrorsOfCall = expected
            ELSE ErrorsOfCall =
                     << <<Txt("Validation failed with "), Num(doc.n), Txt(" errors")>> >>

C12_Witness ==
    /\ CheckFailed /\ call[1].env.checkOutput = TwoErrorsOneWarning
    /\ Len(ErrorsOfCall) = 2

\* The sanitizer was applied to the text of the state.
Cleaned == call # <<>> /\ call[1].out # <<>>
NoFenceInside(p) == \A i \in 1..(Len(p) - 2) : SubSeq(p, i, i + 2) # Fence
\* The sanitizer returned the trimmed payload, or its error when that is blank.
ReturnsTrimmed(out, payload) ==
    IF TrimSpace(payload) = <<>> THEN out.err # Nil /\ out.result = <<>>
    ELSE out.err = Nil /\ out.result = TrimSpace(payload)

\* C13: for a payload with no fence inside it, with only a tagged leading
\* fence, only a trailing fence at the very end, both, or neither, the
\* sanitizer returns the trimmed payload (its empty-text error when the
\* payload is blank).
C13_FencesIndependent ==
    Cleaned /\ NoFenceInside(call[1].payload) /\ call[1].lead # "bare" =>
        ReturnsTrimmed(call[1].out[1], call[1].payload)

C13_Witness ==
    /\ Cleaned /\ call[1].lead = "none" /\ call[1].trail
    /\ call[1].payload = <<NL, "x", BT, NL>>
    /\ call[1].out[1].result = <<"x", BT>>

\* A text made of an opener with its newline and a payload that does not end
\* in a fence, and no fence added at the end.
OpenerThenPayload ==
    /\ Cleaned /\ call[1].lead # "none" /\ call[1].nl /\ ~call[1].trail
    /\ ~HasSuffix(call[1].payload, Fence)

\* C14, as stated: a leading opener, bare or tagged terraform or hcl, is
\* removed with the single newline after it: what is returned is the trimmed
\* payload.
C14_AnyOpenerStripped ==
    OpenerThenPayload => ReturnsTrimmed(call[1].out[1], call[1].payload)

\* C14, amended: an opener tagged terraform or hcl is removed with the single
\* newline after it; a bare opener is not an opener to the sanitizer and stays
\* in the returned text, which is the whole input trimmed and begins with the
\* three backticks.
C14_TaggedOpenerStripped ==
    OpenerThenPayload =>
        IF call[1].lead \in {"terraform", "hcl"}
        THEN ReturnsTrimmed(call[1].out[1], call[1].payload)
        ELSE /\ call[1].out[1].err = Nil
             /\ call[1].out[1].result = TrimSpace(call[1].raw)
             /\ HasPrefix(call[1].out[1].result, Fence)

C14_Witness ==
    /\ OpenerThenPayload /\ call[1].lead = "bare" /\ call[1].payload = <<"x">>
    /\ call[1].out[1].result = Fence \o <<NL, "x">>

\* C20: the sanitizer is idempotent on its own output: applied to a text it
\* returned, it succeeds and returns that text unchanged.
C20_Idempotent ==
    call # <<>> /\ call[1].again # <<>> =>
        /\ call[1].again[1].err = Nil
        /\ call[1].again[1].result = call[1].out[1].result

\* The output is not a structured document (one JSON object, white space
\* around it allowed).
NotADocument(output) ==
    ~(Len(TrimSpaceTok(output)) = 1 /\ TrimSpaceTok(output)[1].k = "json")
IsWrapperLine(l) == l # <<>> /\ l[1] = WrapperPrefix
IsBlankLine(l) == \A i \in 1..Len(l) : IsSpaceTok(l[i])
\* The lines of the output that are not blank and not the wrapper's, as they
\* are in the output, and the same lines trimmed.
RawLines(output) ==
    SelectSeq(SplitLines(output), LAMBDA l : ~IsBlankLine(l) /\ ~IsWrapperLine(TrimLeftTok(l)))
TrimmedLines(output) ==
    [i \in 1..Len(RawLines(output)) |-> TrimSpaceTok(RawLines(output)[i])]

\* C15, as stated: when the output of the failed check is not a parseable
\* structured document, the error list is exactly its non-blank lines, in
\* order, minus the wrapper-prefix lines, and the raw output alone when there
\* are none.
C15_LinePolicy ==
    CheckFailed /\ NotADocument(call[1].env.checkOutput) =>
        LET output == call[1].env.checkOutput
        IN  ErrorsOfCall = IF RawLines(output) = <<>> THEN <<output>> ELSE RawLines(output)

\* C15, amended: when the output does not contain the text "valid": false the
\* error list is its non-blank lines, each trimmed of surrounding white
\* space, in order, minus the lines that begin with the wrapper prefix, and
\* the raw output alone when there are none; when the output contains that
\* text and does not parse, the list is the single string "Failed to parse
\* validation output: " followed by the raw output.
C15_LinePolicyOrParseFailure ==
    CheckFailed /\ NotADocument(call[1].env.checkOutput) =>
        LET output == call[1].env.checkOutput
        IN  IF ContainsValidFalse(output)
            THEN ErrorsOfCall = << <<Txt("Failed to parse validation output: ")>> \o output >>
            ELSE ErrorsOfCall =
                     IF TrimmedLines(output) = <<>> THEN <<output>> ELSE TrimmedLines(output)

C15_Witness ==
    /\ CheckFailed /\ call[1].env.checkOutput = PlainErrors
    /\ ErrorsOfCall = << <<Txt("Error: E1")>> >>

\* A call of POST /validate whose init step ran and reported failure.
InitFailed ==
    /\ call # <<>> /\ call[1].ret # <<>>
    /\ call[1].env.installed /\ call[1].env.tempDir /\ call[1].env.writeMain
    /\ ~call[1].env.initOk

\* C16: when terraform init fails the call returns a result and no error:
\* isValid = false, exactly one error, "Terraform init failed: " followed by
\* the step's error, the raw init output as output, the elapsed time; the
\* check step was not run.
C16_InitFailureReturnsAtOnce ==
    InitFailed =>
        LET ret == call[1].ret[1]
        IN  /\ ret.err = Nil /\ Len(ret.result) = 1
            /\ ~ret.result[1].IsValid
            /\ Len(ret.result[1].Errors) = 1
            /\ HasPrefix(ret.result[1].Errors[1], <<Txt("Terraform init failed: ")>>)
            /\ Len(ret.result[1].Errors[1]) > 1
            /\ ret.result[1].Output = call[1].env.initOutput
            /\ ret.result[1].ExecTime = call[1].env.elapsed
            /\ ret.hist.initRun /\ ~ret.hist.checkRun

C16_Witness ==
    /\ InitFailed /\ ~call[1].env.checkOk /\ call[1].env.initOutput = InitOutput
    /\ call[1].env.checkOutput = TwoErrorsOneWarning
    /\ call[1].status = StatusUnprocessableEntity

\* The same environment with the other outcome of os.RemoveAll.
OtherRemoval(env) == [env EXCEPT !.removeOk = ~env.removeOk]

Allocating ==
    /\ call # <<>> /\ call[1].pc \in {"probe", "done"}
    /\ call[1].dir # "" /\ call[1].ext # "" /\ call[1].provider # ""
\* The least index whose path is free in a directory.
LeastFree(taken) ==
    IF taken.hole \in 1..taken.upto THEN taken.hole ELSE taken.upto + 1

\* C18: the probe loop terminates: it probes the indices from 1 upwards, one
\* more at every step and at most 10,000, never past a free one; it returns
\* the path of the least free index, which it saw free, and never one above
\* 10,000; it returns the exhaustion error, and no path, exactly when the
\* indices 1..10,000 are all taken.
C18_ProbeLoopTerminates ==
    Allocating =>
        LET c == call[1]
            least == LeastFree(c.taken)
        IN  /\ c.probes <= maxAttempts
            /\ c.pc = "probe" =>
                   /\ c.index = c.probes + 1 /\ c.index <= least
                   /\ c.path = <<>> /\ c.err = Nil
            /\ c.pc = "done" =>
                   /\ c.path = <<>> <=> least > maxAttempts
                   /\ c.path = <<>> => c.err # Nil /\ c.probes = maxAttempts
                   /\ c.path # <<>> =>
                          /\ c.err = Nil /\ c.index = least /\ c.index <= maxAttempts
                          /\ c.probes = c.index
                          /\ ~StatExists(c.taken, c.index)
                          /\ c.path[1].dir = c.dir
                          /\ c.path[1].name[Len(c.path[1].name) - 1] = ToString(c.index)

C18_Witness ==
    /\ Allocating /\ call[1].pc = "done" /\ call[1].path = <<>>
    /\ call[1].taken = Taken(maxAttempts + 1, 0) /\ call[1].probes = maxAttempts

\* The base name as the claim derives it from the tokens of the text: each of
\* the first five tokens without its characters other than letters, digits and
\* underscores, lower-cased, with an underscore between two tokens.
Stripped(word) ==
    LET kept == SelectSeq(word, LAMBDA ch : ch \in {"a", "A", "1", "_"})
    IN  [i \in 1..Len(kept) |-> IF kept[i] = "A" THEN "a" ELSE kept[i]]
RECURSIVE JoinStripped(_)
JoinStripped(words) ==
    IF words = <<>> THEN <<>>
    ELSE IF Len(words) = 1 THEN Stripped(words[1])
    ELSE Stripped(words[1]) \o <<"_">> \o JoinStripped(Tail(words))
FirstFive(words) == IF Len(words) > 5 THEN SubSeq(words, 1, 5) ELSE words
FileNameWith(c, base) ==
    <<c.provider, "_">> \o base \o <<"_", ToString(c.index), c.ext>>
Allocated == Allocating /\ call[1].pc = "done" /\ call[1].path # <<>>

\* C19, as stated: the base name is the stripped, lower-cased join of the first
\* five tokens, and "generated" whenever the text is empty, blank or made of
\* symbols only; the file name is <tag>_<base>_<index><extension>.
C19_BaseNameAsStated ==
    Allocated =>
        LET c == call[1]
            symbolsOnly == \A i \in 1..Len(c.words) : Stripped(c.words[i]) = <<>>
        IN  c.path[1].name =
                FileNameWith(c, IF symbolsOnly THEN <<"generated">>
                                ELSE JoinStripped(FirstFive(c.words)))

\* C19, amended: the base name is the stripped, lower-cased join of the first
\* five tokens, and "generated" exactly when that is empty: the text has no
\* token, or one token of symbols only; several tokens of symbols only give
\* the underscores that joined them.  The file name is
\* <tag>_<base>_<index><extension>.
C19_BaseName ==
    Allocated =>
        LET c == call[1]
            joined == JoinStripped(FirstFive(c.words))
            generated == FileNameWith(c, <<"generated">>)
        IN  /\ c.path[1].name = IF joined = <<>> THEN generated ELSE FileNameWith(c, joined)
            /\ c.path[1].name = generated <=>
                   \/ c.words = <<>>
                   \/ Len(c.words) = 1 /\ Stripped(c.words[1]) = <<>>

C19_Witness ==
    /\ Allocated /\ Len(call[1].words) = 6 /\ call[1].taken = Taken(3, 2)
    /\ call[1].words[6] = <<"a", "_", "1">> /\ call[1].words[1] = <<"A", "!">>
    /\ call[1].words[2] = <<"!", "!">>

====
